---- MODULE Spec2Model ----
(***************************************************************************)
(* A model of fetch_news.py: the RSS pipeline (fetch_feed, translate_text,  *)
(* the aggregation and sort of main) and the archive ledger that main      *)
(* persists in output/archives.json.                                       *)
(*                                                                         *)
(* Text is a sequence of character codes (Python str, compared by code     *)
(* point); an optional attribute is a sequence of length 0 (absent, None)  *)
(* or 1 (present); time is counted in whole hours since 1970-01-01 00:00   *)
(* UTC.                                                                    *)
(***************************************************************************)
EXTENDS Integers, Sequences, FiniteSets, TLC

(***************************************************************************)
(* Program constants                                                       *)
(***************************************************************************)
\* JST = timezone(timedelta(hours=9))
JST == 9

\* HOURS_LIMIT = 48
HOURS_LIMIT == 48

\* feed.entries[:10]
EntryCap == 10

\* summary[:200] + "..."
SummaryLimit == 200

\* archives[:30]
ArchiveLimit == 30

\* RSS_FEEDS, by display name, in registry order
RSS_FEEDS ==
  << "MIT Technology Review - AI", "VentureBeat - AI", "The Verge - AI",
     "TechCrunch - AI", "Google AI Blog", "OpenAI Blog" >>

(***************************************************************************)
(* Bounds of the model                                                     *)
(***************************************************************************)
\* the first run happens at 2024-01-15 06:00 UTC (15:00 JST)
StartNow == 473694

\* the clock advances at most this many days past StartNow
MaxDay == 31

\* departures from "one successful run with articles per day" (a clock set
\* back, a further run on the same day, a run without articles, a run that
\* aborts) in one behaviour
MaxAnomalies == 1

\* days by which the clock is set back at once
MaxBack == 1

\* entries of the feed handed to fetch_feed in SpecFetch
MaxEntries == 2

(***************************************************************************)
(* Text and dates                                                          *)
(***************************************************************************)
Min(a, b) == IF a < b THEN a ELSE b

Take(s, n) == SubSeq(s, 1, Min(n, Len(s)))

Range(s) == { s[i] : i \in 1..Len(s) }

\* Python's str < str: lexicographic by code point
RECURSIVE StrLess(_, _)
StrLess(s, t) ==
  IF t = <<>> THEN FALSE
  ELSE IF s = <<>> THEN TRUE
  ELSE IF Head(s) # Head(t) THEN Head(s) < Head(t)
  ELSE StrLess(Tail(s), Tail(t))

\* "%04d" / "%02d": zero-padded decimal digits, as character codes
RECURSIVE Digits(_, _)
Digits(n, width) ==
  IF width = 0 THEN <<>>
  ELSE Append(Digits(n \div 10, width - 1), 48 + (n % 10))

\* the proleptic Gregorian date of a day number (days since 1970-01-01), as
\* datetime computes it: the day of the 400-year era, the year of the era,
\* the day of the year (from 1 March), the month
CivilOfMonth(y0, doy, mp) ==
  [ year  |-> y0 + (IF mp < 10 THEN 0 ELSE 1),
    month |-> IF mp < 10 THEN mp + 3 ELSE mp - 9,
    day   |-> doy - (153 * mp + 2) \div 5 + 1 ]

CivilOfYearDay(y0, doy) == CivilOfMonth(y0, doy, (5 * doy + 2) \div 153)

CivilOfYear(era, doe, yoe) ==
  CivilOfYearDay(yoe + era * 400,
                 doe - (365 * yoe + yoe \div 4 - yoe \div 100))

CivilOfEra(era, doe) ==
  CivilOfYear(era, doe,
    (doe - doe \div 1460 + doe \div 36524 - doe \div 146096) \div 365)

CivilFromDays(days) ==
  CivilOfEra((days + 719468) \div 146097, (days + 719468) % 146097)

\* dt.astimezone(JST).strftime("%Y-%m-%d") of the instant t (hours, UTC)
FormatDate(civ) ==
  Digits(civ.year, 4) \o <<45>> \o Digits(civ.month, 2) \o <<45>>
    \o Digits(civ.day, 2)

StrfDate(t) == FormatDate(CivilFromDays((t + JST) \div 24))

(***************************************************************************)
(* translate_text                                                          *)
(***************************************************************************)
\* what translator.translate returns for a text when the call succeeds:
\* some other, non-empty text determined by the input
Translated(text) == <<26085>> \o text

\* translate_text with the source text handed back when the call fails
translate_text_Echo(text, ok) ==
  IF text = <<>> THEN <<>>
  ELSE IF ok THEN Translated(text)
  ELSE text

\* translate_text(text); ok says whether the one call to the translator
\* succeeds. An empty text returns "" without a call, a failed call is
\* caught and returns "".
translate_text(text, ok) ==
  IF text = <<>> THEN <<>>
  ELSE IF ok THEN Translated(text)
  ELSE <<>>

\* the calls of translator.translate that translate_text(text) makes
TranslatorCalls(text) == IF text = <<>> THEN 0 ELSE 1

(***************************************************************************)
(* fetch_feed                                                              *)
(***************************************************************************)
\* the first index j > i with s[j] = ">", or 0
RECURSIVE NextClose(_, _)
NextClose(s, j) ==
  IF j > Len(s) THEN 0
  ELSE IF s[j] = 62 THEN j
  ELSE NextClose(s, j + 1)

\* re.sub(r'<[^>]+>', '', s), scanning from index i
RECURSIVE StripTagsFrom(_, _)
StripTagsFrom(s, i) ==
  IF i > Len(s) THEN <<>>
  ELSE LET close == NextClose(s, i + 1)
       IN  IF s[i] = 60 /\ close > i + 1
           THEN StripTagsFrom(s, close + 1)
           ELSE <<s[i]>> \o StripTagsFrom(s, i + 1)

StripTags(s) == StripTagsFrom(s, 1)

\* summary[:200] + "..." if len(summary) > 200 else summary
Truncate(s) ==
  IF Len(s) > SummaryLimit THEN Take(s, SummaryLimit) \o <<46, 46, 46>> ELSE s

\* lines 83-87: the summary of an entry
Summary(entry) ==
  IF entry.summary = <<>> THEN <<>> ELSE Truncate(StripTags(entry.summary[1]))

\* lines 71-75: the time tuple the entry's date is read from, published_parsed
\* first and updated_parsed as the fallback; <<>> when neither is there
Timestamp(entry) ==
  IF entry.published_parsed # <<>> THEN entry.published_parsed
  ELSE entry.updated_parsed

\* line 78 with <= for <
TooOld_Inclusive(t, cutoff) == t <= cutoff

\* line 78, second disjunct: published_dt < cutoff_time
TooOld(t, cutoff) == t < cutoff

\* lines 89-102, with the summary of lines 83-87
ArticleWith(entry, name, summary) ==
  [ title      |-> entry.title[1],
    title_ja   |-> translate_text(entry.title[1], entry.tr_title),
    link       |-> entry.link[1],
    published  |-> StrfDate(Timestamp(entry)[1].hours),
    summary    |-> summary,
    summary_ja |-> translate_text(summary, entry.tr_summary),
    source     |-> name ]

Article(entry, name) == ArticleWith(entry, name, Summary(entry))

\* lines 91-92: the translator calls made for one entry
CallsFor(title, summary) == TranslatorCalls(title) + TranslatorCalls(summary)

\* One pass of the loop body (lines 70-102) over one entry:
\*   "raise" an exception leaves the loop body (datetime() on a malformed time
\*           tuple, entry.title or entry.link missing),
\*   "skip"  the continue of line 79,
\*   "keep"  the append of line 94;
\* calls counts the calls of translator.translate made before it ends.
EntryStep(entry, name, cutoff) ==
  LET ts == Timestamp(entry)
  IN  IF ts # <<>> /\ ~ts[1].valid
        THEN [kind |-> "raise", calls |-> 0]
      ELSE IF ts = <<>> \/ TooOld(ts[1].hours, cutoff)
        THEN [kind |-> "skip", calls |-> 0]
      ELSE IF entry.title = <<>>
        THEN [kind |-> "raise", calls |-> 0]
      ELSE IF entry.link = <<>>
        THEN [kind |-> "raise",
              calls |-> CallsFor(entry.title[1], Summary(entry))]
      ELSE [kind |-> "keep",
            calls |-> CallsFor(entry.title[1], Summary(entry))]

\* the for loop of lines 69-102 from entry i on, inside the try of line 67:
\* an exception in the body ends the loop and is caught at line 103, with the
\* articles appended so far
RECURSIVE EntryLoop(_, _, _, _, _)
EntryLoop(entries, name, cutoff, i, acc) ==
  IF i > Len(entries) THEN acc
  ELSE LET step == EntryStep(entries[i], name, cutoff)
           seen == [acc EXCEPT !.trace = Append(@, step.kind),
                               !.calls = @ + step.calls]
       IN  IF step.kind = "raise" THEN [seen EXCEPT !.error = TRUE]
           ELSE IF step.kind = "skip"
             THEN EntryLoop(entries, name, cutoff, i + 1, seen)
           ELSE EntryLoop(entries, name, cutoff, i + 1,
                  [seen EXCEPT !.articles = Append(@, Article(entries[i], name))])

\* fetch_feed(feed_info) at time now, where response is what feedparser.parse
\* does for the feed's URL: it raises (ok = FALSE) or returns the entries.
\* articles is the returned list; trace (how the loop body ended for each
\* entry it reached), calls (translator calls made) and error (the except
\* branch ran) observe the execution.
fetch_feed(name, response, now) ==
  LET cutoff_time == now - HOURS_LIMIT
      start == [articles |-> <<>>, trace |-> <<>>, calls |-> 0, error |-> FALSE]
  IN  IF ~response.ok THEN [start EXCEPT !.error = TRUE]
      ELSE EntryLoop(Take(response.entries, EntryCap), name, cutoff_time, 1, start)

(***************************************************************************)
(* main: aggregation and sort                                              *)
(***************************************************************************)
\* lines 129-133: all_articles.extend(fetch_feed(feed_info)) for the feeds
\* from index i on, in registry order
RECURSIVE ExtendFrom(_, _, _)
ExtendFrom(responses, now, i) ==
  IF i > Len(RSS_FEEDS) THEN <<>>
  ELSE fetch_feed(RSS_FEEDS[i], responses[i], now).articles
         \o ExtendFrom(responses, now, i + 1)

\* the loop of lines 130-133 left at the first feed that is down
RECURSIVE ExtendUntilDown(_, _, _)
ExtendUntilDown(responses, now, i) ==
  IF i > Len(RSS_FEEDS) \/ ~responses[i].ok THEN <<>>
  ELSE fetch_feed(RSS_FEEDS[i], responses[i], now).articles
         \o ExtendUntilDown(responses, now, i + 1)

Aggregate_StopAtFailure(responses, now) == ExtendUntilDown(responses, now, 1)

Aggregate(responses, now) == ExtendFrom(responses, now, 1)

\* a placed in front of the elements with an equal key: an unstable sort
RECURSIVE InsertArticle_BeforeEqual(_, _)
InsertArticle_BeforeEqual(a, sorted) ==
  IF sorted = <<>> THEN <<a>>
  ELSE IF ~StrLess(a.published, Head(sorted).published) THEN <<a>> \o sorted
  ELSE <<Head(sorted)>> \o InsertArticle_BeforeEqual(a, Tail(sorted))

\* a placed into the list sorted so far, behind every element whose key is
\* not smaller than its own
RECURSIVE InsertArticle(_, _)
InsertArticle(a, sorted) ==
  IF sorted = <<>> THEN <<a>>
  ELSE IF StrLess(Head(sorted).published, a.published) THEN <<a>> \o sorted
  ELSE <<Head(sorted)>> \o InsertArticle(a, Tail(sorted))

\* list.sort(key=lambda x: x["published"], reverse=True) applied to the first
\* n elements: Python's sort is stable, also with reverse=True
RECURSIVE SortPrefix(_, _)
SortPrefix(articles, n) ==
  IF n = 0 THEN <<>>
  ELSE InsertArticle(articles[n], SortPrefix(articles, n - 1))

\* line 136
SortByPublished(articles) == SortPrefix(articles, Len(articles))

(***************************************************************************)
(* main: the archive ledger, output/archives.json                          *)
(***************************************************************************)
\* load_archives: the parsed file, [] when the file does not exist
load_archives(file) == IF file.exists THEN file.data ELSE <<>>

\* lines 152-153 without the membership test
InsertToday_Always(archives, today) == <<today>> \o archives

\* lines 152-153: archives.insert(0, today) unless today is in the list
InsertToday(archives, today) ==
  IF today \in Range(archives) THEN archives ELSE <<today>> \o archives

\* archives[:31]
KeepRecent_OffByOne(archives) == Take(archives, ArchiveLimit + 1)

\* archives[-30:]
KeepRecent_Tail(archives) ==
  SubSeq(archives, Len(archives) - Min(ArchiveLimit, Len(archives)) + 1,
         Len(archives))

\* line 155: archives[:30]
KeepRecent(archives) == Take(archives, ArchiveLimit)

\* lines 151-155: the list main saves and hands to the index template
UpdatedArchives(file, today) ==
  KeepRecent(InsertToday(load_archives(file), today))

\* save_archives: the file overwritten with the list
save_archives(archives) == [exists |-> TRUE, data |-> archives]

(***************************************************************************)
(* State                                                                   *)
(***************************************************************************)
VARIABLES
  now,            \* the wall clock, hours since the epoch
  archives_file,  \* output/archives.json
  archive_pages,  \* the dates d with a file output/archives/d.html
  index_page,     \* output/index.html: <<>> or <<what was rendered>>
  all_articles,   \* the last run's list after line 136
  aggregated,     \* the last run's list before line 136
  responses,      \* what feedparser and the translator answer in the run
  fail_at,        \* the step of the run at which a fatal error is raised
  status,         \* how the last run ended
  history,        \* the dates inserted into the saved ledger, in order
  runs_today,     \* runs since the clock last changed
  anomalies,      \* departures from the daily routine so far
  feed,           \* SpecFetch: the response handed to fetch_feed
  fetched         \* SpecFetch: <<>> or <<fetch_feed's result>>

vars ==
  << now, archives_file, archive_pages, index_page, all_articles, aggregated,
     responses, fail_at, status, history, runs_today, anomalies, feed, fetched >>

\* the steps of main after the sort at which an unhandled error ends the run:
\* os.makedirs (line 142), open in save_archives (line 121), the archive
\* template or file (lines 160-168), the index template or file (172-182)
FailPoints == {"none", "makedirs", "save", "archive", "index"}

(***************************************************************************)
(* Feed entries and responses offered to the program                       *)
(***************************************************************************)
NoTime == <<>>

TimeTuple(t) == << [valid |-> TRUE, hours |-> t] >>

\* a time tuple datetime() rejects
BadTuple == << [valid |-> FALSE, hours |-> 0] >>

\* "A<b>c"
MarkedUp == << 65, 60, 98, 62, 99 >>

\* a well-formed entry published age hours before t, title "T" and a digit
Entry(t, age, k) ==
  [ published_parsed |-> TimeTuple(t - age),
    updated_parsed   |-> NoTime,
    title            |-> << <<84, 48 + k>> >>,
    link             |-> << <<76, 48 + k>> >>,
    summary          |-> << MarkedUp >>,
    tr_title         |-> TRUE,
    tr_summary       |-> TRUE ]

Down == [ok |-> FALSE, entries |-> <<>>]

Feed(entries) == [ok |-> TRUE, entries |-> entries]

\* the same response from every feed of the registry
Everywhere(response) == [i \in 1..Len(RSS_FEEDS) |-> response]

\* the run inputs of Spec: the first feed has a fresh entry and the others
\* are empty; every feed is down
Fresh(t) == [Everywhere(Feed(<<>>)) EXCEPT ![1] = Feed(<<Entry(t, 14, 1)>>)]

AllDown == Everywhere(Down)

LedgerResponses(t) == {Fresh(t), AllDown}

(***************************************************************************)
(* main                                                                    *)
(***************************************************************************)
\* One run of main (lines 125-185) at time now, given what the feeds and the
\* translator answer (r) and the step at which a fatal error is raised (f).
\* The clock is read as one instant for the whole run.
Main(r, f) ==
  LET collected    == Aggregate(r, now)
      sorted       == SortByPublished(collected)
      today        == StrfDate(now)
      archives     == UpdatedArchives(archives_file, today)
      ledger_done  == f \notin {"makedirs", "save"}
      archive_done == ledger_done /\ sorted # <<>> /\ f # "archive"
      index_done   == ledger_done /\ f \notin {"archive", "index"}
  IN  /\ f = "archive" => sorted # <<>>
      /\ aggregated' = collected
      /\ all_articles' = sorted
      /\ archives_file' =
           IF ledger_done THEN save_archives(archives) ELSE archives_file
      /\ archive_pages' =
           IF archive_done THEN archive_pages \cup {today} ELSE archive_pages
      /\ index_page' =
           IF index_done
             THEN << [updated_at |-> today, total_count |-> Len(sorted),
                      archive_count |-> Len(archives)] >>
             ELSE index_page
      /\ status' = IF f = "none" THEN "done" ELSE f
      /\ history' =
           IF ledger_done /\ today \notin Range(load_archives(archives_file))
             THEN Append(history, today)
             ELSE history
      /\ responses' = r
      /\ fail_at' = f
      /\ runs_today' = runs_today + 1
      /\ UNCHANGED <<now, feed, fetched>>

(***************************************************************************)
(* Spec: the pipeline run day after day                                    *)
(***************************************************************************)
Day == (now - StartNow) \div 24

Init ==
  /\ now = StartNow
  /\ archives_file = [exists |-> FALSE, data |-> <<>>]
  /\ archive_pages = {}
  /\ index_page = <<>>
  /\ all_articles = <<>>
  /\ aggregated = <<>>
  /\ responses = AllDown
  /\ fail_at = "none"
  /\ status = "idle"
  /\ history = <<>>
  /\ runs_today = 0
  /\ anomalies = 0
  /\ feed = Down
  /\ fetched = <<>>

\* the day's first run, with articles and without a fatal error
DailyRun ==
  /\ runs_today = 0
  /\ Main(Fresh(now), "none")
  /\ UNCHANGED anomalies

\* any other run: a further run on the same day, a run that finds no
\* articles, a run that aborts
OddRun ==
  /\ anomalies < MaxAnomalies
  /\ \E r \in LedgerResponses(now), f \in FailPoints :
       /\ runs_today > 0 \/ r # Fresh(now) \/ f # "none"
       /\ Main(r, f)
  /\ anomalies' = anomalies + 1

\* the next day, after a day with a run
Tick ==
  /\ runs_today > 0
  /\ Day < MaxDay
  /\ now' = now + 24
  /\ runs_today' = 0
  /\ UNCHANGED << archives_file, archive_pages, index_page, all_articles,
                  aggregated, responses, fail_at, status, history, anomalies,
                  feed, fetched >>

\* the wall clock is set back by whole days
ClockBack ==
  /\ anomalies < MaxAnomalies
  /\ \E k \in 1..MaxBack : now' = now - 24 * k
  /\ runs_today' = 0
  /\ anomalies' = anomalies + 1
  /\ UNCHANGED << archives_file, archive_pages, index_page, all_articles,
                  aggregated, responses, fail_at, status, history, feed,
                  fetched >>

Next == DailyRun \/ OddRun \/ Tick \/ ClockBack

Spec == Init /\ [][Next]_vars

(***************************************************************************)
(* SpecFetch: fetch_feed applied to one feed                               *)
(***************************************************************************)
\* published_parsed and updated_parsed of the entries offered, by age in
\* hours: inside the window, exactly at the cutoff, one hour too old
TimePairs(t) ==
  LET fresh  == TimeTuple(t - (HOURS_LIMIT - 1))
      atedge == TimeTuple(t - HOURS_LIMIT)
      old    == TimeTuple(t - (HOURS_LIMIT + 1))
  IN  { <<NoTime, NoTime>>, <<NoTime, fresh>>, <<NoTime, old>>,
        <<fresh, NoTime>>, <<atedge, NoTime>>, <<old, fresh>>,
        <<fresh, old>>, <<BadTuple, fresh>> }

\* the rest of an entry: complete, a translator call that fails, a missing
\* attribute
Contents(t) ==
  LET whole == Entry(t, 0, 1)
  IN  { whole,
        [whole EXCEPT !.tr_title = FALSE],
        [whole EXCEPT !.tr_summary = FALSE],
        [whole EXCEPT !.title = <<>>],
        [whole EXCEPT !.link = <<>>],
        [whole EXCEPT !.summary = <<>>] }

FetchEntries(t) ==
  { [c EXCEPT !.published_parsed = p[1], !.updated_parsed = p[2]] :
      c \in Contents(t), p \in TimePairs(t) }

RECURSIVE SeqsUpTo(_, _)
SeqsUpTo(S, n) ==
  IF n = 0 THEN { <<>> }
  ELSE LET shorter == SeqsUpTo(S, n - 1)
       IN  shorter \cup { Append(q, x) : q \in shorter, x \in S }

FetchResponses(t) ==
  {Down} \cup { Feed(q) : q \in SeqsUpTo(FetchEntries(t), MaxEntries) }

InitFetch ==
  /\ now = StartNow
  /\ archives_file = [exists |-> FALSE, data |-> <<>>]
  /\ archive_pages = {}
  /\ index_page = <<>>
  /\ all_articles = <<>>
  /\ aggregated = <<>>
  /\ responses = AllDown
  /\ fail_at = "none"
  /\ status = "idle"
  /\ history = <<>>
  /\ runs_today = 0
  /\ anomalies = 0
  /\ feed \in FetchResponses(StartNow)
  /\ fetched = <<>>

Fetch ==
  /\ fetched = <<>>
  /\ fetched' = << fetch_feed(RSS_FEEDS[1], feed, now) >>
  /\ UNCHANGED << now, archives_file, archive_pages, index_page, all_articles,
                  aggregated, responses, fail_at, status, history, runs_today,
                  anomalies, feed >>

NextFetch == Fetch

SpecFetch == InitFetch /\ [][NextFetch]_vars

(***************************************************************************)
(* SpecMain: one run of main from an absent ledger                         *)
(***************************************************************************)
\* what one feed answers: down, no entries, one fresh entry, an entry of two
\* days ago followed by a fresh one
MainFeeds(t) ==
  { Down, Feed(<<>>), Feed(<<Entry(t, 14, 1)>>),
    Feed(<<Entry(t, 40, 2), Entry(t, 14, 1)>>) }

InitMain ==
  /\ now = StartNow
  /\ archives_file = [exists |-> FALSE, data |-> <<>>]
  /\ archive_pages = {}
  /\ index_page = <<>>
  /\ all_articles = <<>>
  /\ aggregated = <<>>
  /\ responses \in [1..Len(RSS_FEEDS) -> MainFeeds(StartNow)]
  /\ fail_at \in FailPoints
  /\ status = "ready"
  /\ history = <<>>
  /\ runs_today = 0
  /\ anomalies = 0
  /\ feed = Down
  /\ fetched = <<>>

MainOnce ==
  /\ status = "ready"
  /\ Main(responses, fail_at)
  /\ UNCHANGED anomalies

NextMain == MainOnce

SpecMain == InitMain /\ [][NextMain]_vars

(***************************************************************************)
(* Properties                                                              *)
(***************************************************************************)
\* the persisted ledger
Ledger == load_archives(archives_file)

IsDistinct(s) == \A i, j \in 1..Len(s) : i # j => s[i] # s[j]

Count(x, s) == Cardinality({ i \in 1..Len(s) : s[i] = x })

Reverse(s) == [ i \in 1..Len(s) |-> s[Len(s) + 1 - i] ]

LastN(s, n) == SubSeq(s, Len(s) - Min(n, Len(s)) + 1, Len(s))

\* the last run reached and completed the ledger update of lines 151-156
LedgerSaved == status \in {"done", "archive", "index"}

\* C1: starting from an absent ledger file, after any sequence of runs the
\* persisted ledger never holds more than 30 entries.
C1_LedgerBound == Len(Ledger) <= ArchiveLimit

\* more than 30 dates have been inserted and the ledger holds exactly 30
C1_Witness == Len(history) > ArchiveLimit /\ Len(Ledger) = ArchiveLimit

\* C2: no date appears in the ledger more than once, and after a run that
\* saved the ledger (also the second or a later run of the same day) the
\* run's date appears in it exactly once.
C2_OncePerDate ==
  /\ IsDistinct(Ledger)
  /\ runs_today >= 1 /\ LedgerSaved => Count(StrfDate(now), Ledger) = 1

\* a second run on the same day has saved the ledger
C2_Witness ==
  /\ runs_today >= 2
  /\ status = "done"
  /\ Count(StrfDate(now), Ledger) = 1

\* C3: while the dates recorded are pairwise distinct, the ledger is the 30
\* most recently recorded dates (all of them when fewer than 30), newest
\* first, so that truncation drops the least recently recorded date.
C3_MostRecent ==
  IsDistinct(history) => Ledger = Reverse(LastN(history, ArchiveLimit))

\* truncation has dropped a date: more than 30 distinct dates were recorded
C3_Witness ==
  /\ IsDistinct(history)
  /\ Len(history) > ArchiveLimit
  /\ history[1] \notin Range(Ledger)
  /\ Ledger[1] = history[Len(history)]

\* C5: every date in the persisted ledger has a dated archive snapshot page
\* that was written for it, also after runs that collected no articles and
\* after runs aborted by a fatal render or write error.
C5_LedgerDatesHaveSnapshot == Range(Ledger) \subseteq archive_pages

\* C6: the persisted ledger is ordered most-recent-first: each entry is a
\* strictly later calendar date than the entry that follows it.
C6_MostRecentFirst ==
  \A i \in 1..(Len(Ledger) - 1) : StrLess(Ledger[i + 1], Ledger[i])

\* the entries fetch_feed's loop looks at
Examined == Take(feed.entries, EntryCap)

\* the time tuple of an entry as the claims read it: published, else updated
ClaimTime(e) ==
  IF e.published_parsed # <<>> THEN e.published_parsed ELSE e.updated_parsed

\* a timestamp resolves and is not strictly earlier than now - 48 hours
InWindow(e) ==
  /\ ClaimTime(e) # <<>>
  /\ ClaimTime(e)[1].valid
  /\ ClaimTime(e)[1].hours >= now - HOURS_LIMIT

Keeps(trace) == Cardinality({ i \in 1..Len(trace) : trace[i] = "keep" })

Complete(e) == InWindow(e) /\ e.title # <<>> /\ e.link # <<>>

RECURSIVE ArticlesOf(_, _)
ArticlesOf(entries, name) ==
  IF entries = <<>> THEN <<>>
  ELSE (IF Complete(Head(entries)) THEN <<Article(Head(entries), name)>>
        ELSE <<>>) \o ArticlesOf(Tail(entries), name)

\* C7: an error while normalizing one entry omits only that entry: every
\* other entry of the feed that passes the recency filter, before or after
\* it, is in the feed's article list.
C7_EntryErrorIsolated ==
  fetched # <<>> /\ feed.ok =>
    fetched[1].articles = ArticlesOf(Examined, RSS_FEEDS[1])

\* the feed with every translator call succeeding
AllTranslated(f) ==
  [ f EXCEPT !.entries =
      [ i \in 1..Len(f.entries) |->
          [ f.entries[i] EXCEPT !.tr_title = TRUE, !.tr_summary = TRUE ] ] ]

\* the indices of the entries kept, in order
KeptIndices(trace) ==
  LET IsKept(i) == trace[i] = "keep"
  IN  SelectSeq([ i \in 1..Len(trace) |-> i ], IsKept)

\* C9: a failed translator call neither drops the article nor ends the loop
\* nor is repeated: against the same feed with every call succeeding, the
\* same entries are kept, the same number of calls is made, and each article
\* has the same title, link, published date, summary and source, with the
\* translated field empty where the call failed and unchanged elsewhere.
C9_TranslationFailureIsolated ==
  fetched # <<>> =>
    LET out  == fetched[1]
        ref  == fetch_feed(RSS_FEEDS[1], AllTranslated(feed), now)
        kept == KeptIndices(out.trace)
    IN  /\ out.trace = ref.trace
        /\ out.calls = ref.calls
        /\ Len(out.articles) = Len(ref.articles)
        /\ Len(out.articles) = Len(kept)
        /\ \A k \in 1..Len(out.articles) :
             LET a == out.articles[k]
                 b == ref.articles[k]
                 e == Examined[kept[k]]
             IN  /\ a.title = e.title[1]
                 /\ a.link = e.link[1]
                 /\ a.source = RSS_FEEDS[1]
                 /\ a.published = b.published
                 /\ a.summary = b.summary
                 /\ a.title_ja = IF e.tr_title THEN b.title_ja ELSE <<>>
                 /\ a.summary_ja = IF e.tr_summary THEN b.summary_ja ELSE <<>>

\* the call for the first article's title failed, the article is there with
\* an empty translated title, and the article after it is translated
C9_Witness ==
  /\ fetched # <<>>
  /\ fetched[1].trace = <<"keep", "keep">>
  /\ ~Examined[1].tr_title
  /\ Len(fetched[1].articles) = 2
  /\ fetched[1].articles[1].title_ja = <<>>
  /\ fetched[1].articles[1].summary_ja # <<>>
  /\ fetched[1].articles[2].title_ja # <<>>

FromSource(articles, name) ==
  LET IsFrom(a) == a.source = name
  IN  SelectSeq(articles, IsFrom)

\* C8: a feed whose fetch or parse fails contributes no article, every
\* other feed contributes exactly the articles fetch_feed returns for it,
\* and a run without a fatal error ends with the ledger updated and the
\* index page rendered.
C8_FeedFailureIsolated ==
  status # "ready" =>
    /\ \A i \in 1..Len(RSS_FEEDS) :
         /\ FromSource(aggregated, RSS_FEEDS[i]) =
              IF responses[i].ok
                THEN fetch_feed(RSS_FEEDS[i], responses[i], now).articles
                ELSE <<>>
         /\ Len(FromSource(all_articles, RSS_FEEDS[i])) =
              Len(FromSource(aggregated, RSS_FEEDS[i]))
    /\ fail_at = "none" =>
         /\ status = "done"
         /\ StrfDate(now) \in Range(Ledger)
         /\ index_page # <<>>
         /\ index_page[1].total_count = Len(all_articles)

\* a run in which the first feed was down and a later feed had two articles
\* has finished
C8_Witness ==
  /\ status = "done"
  /\ ~responses[1].ok
  /\ \E i \in 2..Len(RSS_FEEDS) :
       Len(FromSource(all_articles, RSS_FEEDS[i])) = 2
  /\ index_page # <<>>

PublishedOn(articles, date) ==
  LET IsOn(a) == a.published = date
  IN  SelectSeq(articles, IsOn)

\* C10: the rendered list is non-ascending by published date string, and
\* the articles of one date keep their aggregation order.
C10_SortedStable ==
  status # "ready" =>
    /\ \A i, j \in 1..Len(all_articles) :
         i < j => ~StrLess(all_articles[i].published, all_articles[j].published)
    /\ Len(all_articles) = Len(aggregated)
    /\ \A k \in 1..Len(aggregated) :
         PublishedOn(all_articles, aggregated[k].published) =
           PublishedOn(aggregated, aggregated[k].published)

\* the sort moved an article: an older article of the first feed preceded a
\* newer one in aggregation order, and two feeds have articles of one date
C10_Witness ==
  /\ status = "done"
  /\ Len(aggregated) >= 3
  /\ StrLess(aggregated[1].published, aggregated[2].published)
  /\ all_articles[1] = aggregated[2]
  /\ \E i, j \in 1..Len(all_articles) :
       /\ i < j
       /\ all_articles[i].published = all_articles[j].published
       /\ all_articles[i].source # all_articles[j].source

====
